---- MODULE Spec2Model ----
(***************************************************************************)
(* Model of the bulk-comment analysis pipeline of Semantic Sentinel:       *)
(*   src/services/analyzer.py  SemanticAnalyzer._make_api_request,         *)
(*                             SemanticAnalyzer._extract_json_response,    *)
(*                             SemanticAnalyzer.analyze_bulk_comments      *)
(*   src/config.py             Config                                      *)
(*   src/routes/analysis_routes.py, src/app.py   the handlers that share   *)
(*                             one analyzer                                *)
(*                                                                         *)
(* Representation.                                                         *)
(*  - a Python str that the code trims or lower-cases is the sequence of   *)
(*    its code points; other strings are TLA+ strings;                     *)
(*  - a Python dict is a function whose DOMAIN is the set of keys present, *)
(*    read with Get(d, k, default) as dict.get does; an insertion-ordered  *)
(*    dict that the code iterates is a sequence of [key, val] items;       *)
(*  - a JSON value whose Python type the code depends on carries a tag     *)
(*    ([t |-> "dict", v |-> ...], [t |-> "str", v |-> ...]);               *)
(*  - scores are integers in tenths (0.8 is 8); the float division of the  *)
(*    finalization is the exact fraction [num, den] in lowest terms;       *)
(*  - time is in whole seconds.                                            *)
(***************************************************************************)
EXTENDS Integers, Sequences, FiniteSets, TLC

VARIABLES
    comments,                  \* the argument of analyze_bulk_comments
    progress_callback,         \* "none" | "returns" | "raises"
    pc,                        \* position in analyze_bulk_comments
    i,                         \* the loop variable of line 146 (0-based offset)
    aggregated_results,        \* the accumulator of lines 129-141
    total_score_sum,           \* line 143, in tenths
    processed_comments_count,  \* line 144
    prompt,                    \* the chunk_texts of the chunk in flight
    last_gemini_call_ts,       \* self._last_gemini_call_ts
    now,                       \* the wall clock, time.time()
    result,                    \* what analyze_bulk_comments returned
    chunk_state,               \* chunk number -> PENDING/IN_FLIGHT/MERGED/SKIPPED
    calls,                     \* history: the outbound requests made
    sleeps,                    \* history: chunk numbers followed by the inter-chunk delay
    log,                       \* history: per finished chunk, what the endpoint answered
    callers,                   \* route -> where its request handler is in _make_api_request
    turns,                     \* history: the turns the Rate Gate granted to the handlers
    sleep_until,               \* when the time.sleep of line 215 is due to return
    endpoint                   \* the answers the endpoint may give to a request

vars == <<comments, progress_callback, pc, i, aggregated_results, total_score_sum,
          processed_comments_count, prompt, last_gemini_call_ts, now, result,
          chunk_state, calls, sleeps, log, callers, turns, sleep_until, endpoint>>

(***************************************************************************)
(* Config                                                                  *)
(***************************************************************************)
BULK_CHUNK_SIZE == 10
RATE_LIMIT_DELAY == 30
MIN_SECONDS_BETWEEN_GEMINI_CALLS == 4
TopEntitiesLimit == 20

(***************************************************************************)
(* Bounds of the model                                                     *)
(***************************************************************************)
MaxComments == 12       \* longest comment list analysed
MaxLatency == 1         \* longest duration of a request, and overshoot of a sleep
StartTime == 100        \* the wall clock when the analyzer is constructed
MaxTicks == 2           \* how far the clock runs while handlers interleave
MaxRequests == 1        \* requests handled on /ideas and /text

(***************************************************************************)
(* Python built-ins                                                        *)
(***************************************************************************)
Get(d, k, default) == IF k \in DOMAIN d THEN d[k] ELSE default

Range(s) == {s[k] : k \in 1..Len(s)}

Abs(a) == IF a < 0 THEN -a ELSE a

RECURSIVE Gcd(_, _)
Gcd(a, b) == IF b = 0 THEN a ELSE Gcd(b, a % b)

\* a / b of two numbers (b > 0), as the fraction in lowest terms
Div(a, b) ==
    LET g == Gcd(Abs(a), b)
    IN  [num |-> a \div g, den |-> b \div g]

\* A character is its code point.  Ascii lists the printable characters 32..95,
\* AsciiLower the characters 97..126, and Ord gives the code point of one of them
\* (and of tab, newline, form feed and carriage return), so that a text is written
\* Text(<<"H", "i">>).
Ascii ==
    <<" ", "!", "\"", "#", "$", "%", "&", "'", "(", ")", "*", "+",
      ",", "-", ".", "/", "0", "1", "2", "3", "4", "5", "6", "7",
      "8", "9", ":", ";", "<", "=", ">", "?", "@", "A", "B", "C",
      "D", "E", "F", "G", "H", "I", "J", "K", "L", "M", "N", "O",
      "P", "Q", "R", "S", "T", "U", "V", "W", "X", "Y", "Z", "[",
      "\\", "]", "^", "_">>

AsciiLower ==
    <<"a", "b", "c", "d", "e", "f", "g", "h", "i", "j", "k", "l",
      "m", "n", "o", "p", "q", "r", "s", "t", "u", "v", "w", "x",
      "y", "z", "{", "|", "}", "~">>

Ord(ch) ==
    CASE ch = "\t" -> 9
      [] ch = "\n" -> 10
      [] ch = "\f" -> 12
      [] ch = "\r" -> 13
      [] \E k \in DOMAIN Ascii : Ascii[k] = ch ->
            31 + CHOOSE k \in DOMAIN Ascii : Ascii[k] = ch
      [] OTHER -> 96 + CHOOSE k \in DOMAIN AsciiLower : AsciiLower[k] = ch

Text(s) == [k \in 1..Len(s) |-> Ord(s[k])]

\* c lies in one of the ranges <<first, last>> of the set
InRanges(c, ranges) == \E r \in ranges : r[1] <= c /\ c <= r[2]

\* the characters str.strip() removes (str.isspace), as ranges of code points
Whitespace ==
    {<<9, 13>>, <<28, 32>>, <<133, 133>>, <<160, 160>>, <<5760, 5760>>,
     <<8192, 8202>>, <<8232, 8233>>, <<8239, 8239>>, <<8287, 8287>>, <<12288, 12288>>}

IsSpace(c) == InRanges(c, Whitespace)

\* what str.lower() does to one character above ASCII taken alone: a character
\* first + n * step <= last of a row <<first, last, step, delta>> becomes the
\* character delta further; the others stay.  (304, the dotted capital I, becomes
\* two characters and 931, the capital sigma, depends on its neighbours: see Lower.)
LowerCase ==
    {
      <<192, 214, 1, 32>>, <<216, 222, 1, 32>>, <<256, 302, 2, 1>>, <<306, 310, 2, 1>>, <<313, 327, 2, 1>>,
      <<330, 374, 2, 1>>, <<376, 376, 1, -121>>, <<377, 381, 2, 1>>, <<385, 385, 1, 210>>, <<386, 388, 2, 1>>,
      <<390, 390, 1, 206>>, <<391, 391, 1, 1>>, <<393, 394, 1, 205>>, <<395, 395, 1, 1>>, <<398, 398, 1, 79>>,
      <<399, 399, 1, 202>>, <<400, 400, 1, 203>>, <<401, 401, 1, 1>>, <<403, 403, 1, 205>>, <<404, 404, 1, 207>>,
      <<406, 406, 1, 211>>, <<407, 407, 1, 209>>, <<408, 408, 1, 1>>, <<412, 412, 1, 211>>, <<413, 413, 1, 213>>,
      <<415, 415, 1, 214>>, <<416, 420, 2, 1>>, <<422, 422, 1, 218>>, <<423, 423, 1, 1>>, <<425, 425, 1, 218>>,
      <<428, 428, 1, 1>>, <<430, 430, 1, 218>>, <<431, 431, 1, 1>>, <<433, 434, 1, 217>>, <<435, 437, 2, 1>>,
      <<439, 439, 1, 219>>, <<440, 440, 1, 1>>, <<444, 444, 1, 1>>, <<452, 452, 1, 2>>, <<453, 453, 1, 1>>,
      <<455, 455, 1, 2>>, <<456, 456, 1, 1>>, <<458, 458, 1, 2>>, <<459, 475, 2, 1>>, <<478, 494, 2, 1>>,
      <<497, 497, 1, 2>>, <<498, 500, 2, 1>>, <<502, 502, 1, -97>>, <<503, 503, 1, -56>>, <<504, 542, 2, 1>>,
      <<544, 544, 1, -130>>, <<546, 562, 2, 1>>, <<570, 570, 1, 10795>>, <<571, 571, 1, 1>>, <<573, 573, 1, -163>>,
      <<574, 574, 1, 10792>>, <<577, 577, 1, 1>>, <<579, 579, 1, -195>>, <<580, 580, 1, 69>>, <<581, 581, 1, 71>>,
      <<582, 590, 2, 1>>, <<880, 882, 2, 1>>, <<886, 886, 1, 1>>, <<895, 895, 1, 116>>, <<902, 902, 1, 38>>,
      <<904, 906, 1, 37>>, <<908, 908, 1, 64>>, <<910, 911, 1, 63>>, <<913, 929, 1, 32>>, <<931, 939, 1, 32>>,
      <<975, 975, 1, 8>>, <<984, 1006, 2, 1>>, <<1012, 1012, 1, -60>>, <<1015, 1015, 1, 1>>, <<1017, 1017, 1, -7>>,
      <<1018, 1018, 1, 1>>, <<1021, 1023, 1, -130>>, <<1024, 1039, 1, 80>>, <<1040, 1071, 1, 32>>, <<1120, 1152, 2, 1>>,
      <<1162, 1214, 2, 1>>, <<1216, 1216, 1, 15>>, <<1217, 1229, 2, 1>>, <<1232, 1326, 2, 1>>, <<1329, 1366, 1, 48>>,
      <<4256, 4293, 1, 7264>>, <<4295, 4295, 1, 7264>>, <<4301, 4301, 1, 7264>>, <<5024, 5103, 1, 38864>>, <<5104, 5109, 1, 8>>,
      <<7312, 7354, 1, -3008>>, <<7357, 7359, 1, -3008>>, <<7680, 7828, 2, 1>>, <<7838, 7838, 1, -7615>>, <<7840, 7934, 2, 1>>,
      <<7944, 7951, 1, -8>>, <<7960, 7965, 1, -8>>, <<7976, 7983, 1, -8>>, <<7992, 7999, 1, -8>>, <<8008, 8013, 1, -8>>,
      <<8025, 8031, 2, -8>>, <<8040, 8047, 1, -8>>, <<8072, 8079, 1, -8>>, <<8088, 8095, 1, -8>>, <<8104, 8111, 1, -8>>,
      <<8120, 8121, 1, -8>>, <<8122, 8123, 1, -74>>, <<8124, 8124, 1, -9>>, <<8136, 8139, 1, -86>>, <<8140, 8140, 1, -9>>,
      <<8152, 8153, 1, -8>>, <<8154, 8155, 1, -100>>, <<8168, 8169, 1, -8>>, <<8170, 8171, 1, -112>>, <<8172, 8172, 1, -7>>,
      <<8184, 8185, 1, -128>>, <<8186, 8187, 1, -126>>, <<8188, 8188, 1, -9>>, <<8486, 8486, 1, -7517>>, <<8490, 8490, 1, -8383>>,
      <<8491, 8491, 1, -8262>>, <<8498, 8498, 1, 28>>, <<8544, 8559, 1, 16>>, <<8579, 8579, 1, 1>>, <<9398, 9423, 1, 26>>,
      <<11264, 11311, 1, 48>>, <<11360, 11360, 1, 1>>, <<11362, 11362, 1, -10743>>, <<11363, 11363, 1, -3814>>, <<11364, 11364, 1, -10727>>,
      <<11367, 11371, 2, 1>>, <<11373, 11373, 1, -10780>>, <<11374, 11374, 1, -10749>>, <<11375, 11375, 1, -10783>>, <<11376, 11376, 1, -10782>>,
      <<11378, 11378, 1, 1>>, <<11381, 11381, 1, 1>>, <<11390, 11391, 1, -10815>>, <<11392, 11490, 2, 1>>, <<11499, 11501, 2, 1>>,
      <<11506, 11506, 1, 1>>, <<42560, 42604, 2, 1>>, <<42624, 42650, 2, 1>>, <<42786, 42798, 2, 1>>, <<42802, 42862, 2, 1>>,
      <<42873, 42875, 2, 1>>, <<42877, 42877, 1, -35332>>, <<42878, 42886, 2, 1>>, <<42891, 42891, 1, 1>>, <<42893, 42893, 1, -42280>>,
      <<42896, 42898, 2, 1>>, <<42902, 42920, 2, 1>>, <<42922, 42922, 1, -42308>>, <<42923, 42923, 1, -42319>>, <<42924, 42924, 1, -42315>>,
      <<42925, 42925, 1, -42305>>, <<42926, 42926, 1, -42308>>, <<42928, 42928, 1, -42258>>, <<42929, 42929, 1, -42282>>, <<42930, 42930, 1, -42261>>,
      <<42931, 42931, 1, 928>>, <<42932, 42946, 2, 1>>, <<42948, 42948, 1, -48>>, <<42949, 42949, 1, -42307>>, <<42950, 42950, 1, -35384>>,
      <<42951, 42953, 2, 1>>, <<42960, 42960, 1, 1>>, <<42966, 42968, 2, 1>>, <<42997, 42997, 1, 1>>, <<65313, 65338, 1, 32>>,
      <<66560, 66599, 1, 40>>, <<66736, 66771, 1, 40>>, <<66928, 66938, 1, 39>>, <<66940, 66954, 1, 39>>, <<66956, 66962, 1, 39>>,
      <<66964, 66965, 1, 39>>, <<68736, 68786, 1, 64>>, <<71840, 71871, 1, 32>>, <<93760, 93791, 1, 32>>, <<125184, 125217, 1, 34>>
    }

\* c moved by the delta of its row, if it has one
Shifted(c, rows) == IF rows = {} THEN c ELSE c + (CHOOSE r \in rows : TRUE)[4]

LowerChar(c) ==
    IF c < 128 THEN IF 65 <= c /\ c <= 90 THEN c + 32 ELSE c   \* A..Z
    ELSE Shifted(c, {r \in LowerCase : /\ r[1] <= c /\ c <= r[2]
                                       /\ (c - r[1]) % r[3] = 0})

\* the characters str.lower() skips when it looks for the cased neighbours of a
\* capital sigma (Case_Ignorable)
CaseIgnorable ==
    {
      <<39, 39>>, <<46, 46>>, <<58, 58>>, <<94, 94>>, <<96, 96>>, <<168, 168>>,
      <<173, 173>>, <<175, 175>>, <<180, 180>>, <<183, 184>>, <<688, 879>>, <<884, 885>>,
      <<890, 890>>, <<900, 901>>, <<903, 903>>, <<1155, 1161>>, <<1369, 1369>>, <<1375, 1375>>,
      <<1425, 1469>>, <<1471, 1471>>, <<1473, 1474>>, <<1476, 1477>>, <<1479, 1479>>, <<1524, 1524>>,
      <<1536, 1541>>, <<1552, 1562>>, <<1564, 1564>>, <<1600, 1600>>, <<1611, 1631>>, <<1648, 1648>>,
      <<1750, 1757>>, <<1759, 1768>>, <<1770, 1773>>, <<1807, 1807>>, <<1809, 1809>>, <<1840, 1866>>,
      <<1958, 1968>>, <<2027, 2037>>, <<2042, 2042>>, <<2045, 2045>>, <<2070, 2093>>, <<2137, 2139>>,
      <<2184, 2184>>, <<2192, 2193>>, <<2200, 2207>>, <<2249, 2306>>, <<2362, 2362>>, <<2364, 2364>>,
      <<2369, 2376>>, <<2381, 2381>>, <<2385, 2391>>, <<2402, 2403>>, <<2417, 2417>>, <<2433, 2433>>,
      <<2492, 2492>>, <<2497, 2500>>, <<2509, 2509>>, <<2530, 2531>>, <<2558, 2558>>, <<2561, 2562>>,
      <<2620, 2620>>, <<2625, 2626>>, <<2631, 2632>>, <<2635, 2637>>, <<2641, 2641>>, <<2672, 2673>>,
      <<2677, 2677>>, <<2689, 2690>>, <<2748, 2748>>, <<2753, 2757>>, <<2759, 2760>>, <<2765, 2765>>,
      <<2786, 2787>>, <<2810, 2815>>, <<2817, 2817>>, <<2876, 2876>>, <<2879, 2879>>, <<2881, 2884>>,
      <<2893, 2893>>, <<2901, 2902>>, <<2914, 2915>>, <<2946, 2946>>, <<3008, 3008>>, <<3021, 3021>>,
      <<3072, 3072>>, <<3076, 3076>>, <<3132, 3132>>, <<3134, 3136>>, <<3142, 3144>>, <<3146, 3149>>,
      <<3157, 3158>>, <<3170, 3171>>, <<3201, 3201>>, <<3260, 3260>>, <<3263, 3263>>, <<3270, 3270>>,
      <<3276, 3277>>, <<3298, 3299>>, <<3328, 3329>>, <<3387, 3388>>, <<3393, 3396>>, <<3405, 3405>>,
      <<3426, 3427>>, <<3457, 3457>>, <<3530, 3530>>, <<3538, 3540>>, <<3542, 3542>>, <<3633, 3633>>,
      <<3636, 3642>>, <<3654, 3662>>, <<3761, 3761>>, <<3764, 3772>>, <<3782, 3782>>, <<3784, 3789>>,
      <<3864, 3865>>, <<3893, 3893>>, <<3895, 3895>>, <<3897, 3897>>, <<3953, 3966>>, <<3968, 3972>>,
      <<3974, 3975>>, <<3981, 3991>>, <<3993, 4028>>, <<4038, 4038>>, <<4141, 4144>>, <<4146, 4151>>,
      <<4153, 4154>>, <<4157, 4158>>, <<4184, 4185>>, <<4190, 4192>>, <<4209, 4212>>, <<4226, 4226>>,
      <<4229, 4230>>, <<4237, 4237>>, <<4253, 4253>>, <<4348, 4348>>, <<4957, 4959>>, <<5906, 5908>>,
      <<5938, 5939>>, <<5970, 5971>>, <<6002, 6003>>, <<6068, 6069>>, <<6071, 6077>>, <<6086, 6086>>,
      <<6089, 6099>>, <<6103, 6103>>, <<6109, 6109>>, <<6155, 6159>>, <<6211, 6211>>, <<6277, 6278>>,
      <<6313, 6313>>, <<6432, 6434>>, <<6439, 6440>>, <<6450, 6450>>, <<6457, 6459>>, <<6679, 6680>>,
      <<6683, 6683>>, <<6742, 6742>>, <<6744, 6750>>, <<6752, 6752>>, <<6754, 6754>>, <<6757, 6764>>,
      <<6771, 6780>>, <<6783, 6783>>, <<6823, 6823>>, <<6832, 6862>>, <<6912, 6915>>, <<6964, 6964>>,
      <<6966, 6970>>, <<6972, 6972>>, <<6978, 6978>>, <<7019, 7027>>, <<7040, 7041>>, <<7074, 7077>>,
      <<7080, 7081>>, <<7083, 7085>>, <<7142, 7142>>, <<7144, 7145>>, <<7149, 7149>>, <<7151, 7153>>,
      <<7212, 7219>>, <<7222, 7223>>, <<7288, 7293>>, <<7376, 7378>>, <<7380, 7392>>, <<7394, 7400>>,
      <<7405, 7405>>, <<7412, 7412>>, <<7416, 7417>>, <<7468, 7530>>, <<7544, 7544>>, <<7579, 7679>>,
      <<8125, 8125>>, <<8127, 8129>>, <<8141, 8143>>, <<8157, 8159>>, <<8173, 8175>>, <<8189, 8190>>,
      <<8203, 8207>>, <<8216, 8217>>, <<8228, 8228>>, <<8231, 8231>>, <<8234, 8238>>, <<8288, 8292>>,
      <<8294, 8303>>, <<8305, 8305>>, <<8319, 8319>>, <<8336, 8348>>, <<8400, 8432>>, <<11388, 11389>>,
      <<11503, 11505>>, <<11631, 11631>>, <<11647, 11647>>, <<11744, 11775>>, <<11823, 11823>>, <<12293, 12293>>,
      <<12330, 12333>>, <<12337, 12341>>, <<12347, 12347>>, <<12441, 12446>>, <<12540, 12542>>, <<40981, 40981>>,
      <<42232, 42237>>, <<42508, 42508>>, <<42607, 42610>>, <<42612, 42621>>, <<42623, 42623>>, <<42652, 42655>>,
      <<42736, 42737>>, <<42752, 42785>>, <<42864, 42864>>, <<42888, 42890>>, <<42994, 42996>>, <<43000, 43001>>,
      <<43010, 43010>>, <<43014, 43014>>, <<43019, 43019>>, <<43045, 43046>>, <<43052, 43052>>, <<43204, 43205>>,
      <<43232, 43249>>, <<43263, 43263>>, <<43302, 43309>>, <<43335, 43345>>, <<43392, 43394>>, <<43443, 43443>>,
      <<43446, 43449>>, <<43452, 43453>>, <<43471, 43471>>, <<43493, 43494>>, <<43561, 43566>>, <<43569, 43570>>,
      <<43573, 43574>>, <<43587, 43587>>, <<43596, 43596>>, <<43632, 43632>>, <<43644, 43644>>, <<43696, 43696>>,
      <<43698, 43700>>, <<43703, 43704>>, <<43710, 43711>>, <<43713, 43713>>, <<43741, 43741>>, <<43756, 43757>>,
      <<43763, 43764>>, <<43766, 43766>>, <<43867, 43871>>, <<43881, 43883>>, <<44005, 44005>>, <<44008, 44008>>,
      <<44013, 44013>>, <<64286, 64286>>, <<64434, 64450>>, <<65024, 65039>>, <<65043, 65043>>, <<65056, 65071>>,
      <<65106, 65106>>, <<65109, 65109>>, <<65279, 65279>>, <<65287, 65287>>, <<65294, 65294>>, <<65306, 65306>>,
      <<65342, 65342>>, <<65344, 65344>>, <<65392, 65392>>, <<65438, 65439>>, <<65507, 65507>>, <<65529, 65531>>,
      <<66045, 66045>>, <<66272, 66272>>, <<66422, 66426>>, <<67456, 67461>>, <<67463, 67504>>, <<67506, 67514>>,
      <<68097, 68099>>, <<68101, 68102>>, <<68108, 68111>>, <<68152, 68154>>, <<68159, 68159>>, <<68325, 68326>>,
      <<68900, 68903>>, <<69291, 69292>>, <<69446, 69456>>, <<69506, 69509>>, <<69633, 69633>>, <<69688, 69702>>,
      <<69744, 69744>>, <<69747, 69748>>, <<69759, 69761>>, <<69811, 69814>>, <<69817, 69818>>, <<69821, 69821>>,
      <<69826, 69826>>, <<69837, 69837>>, <<69888, 69890>>, <<69927, 69931>>, <<69933, 69940>>, <<70003, 70003>>,
      <<70016, 70017>>, <<70070, 70078>>, <<70089, 70092>>, <<70095, 70095>>, <<70191, 70193>>, <<70196, 70196>>,
      <<70198, 70199>>, <<70206, 70206>>, <<70367, 70367>>, <<70371, 70378>>, <<70400, 70401>>, <<70459, 70460>>,
      <<70464, 70464>>, <<70502, 70508>>, <<70512, 70516>>, <<70712, 70719>>, <<70722, 70724>>, <<70726, 70726>>,
      <<70750, 70750>>, <<70835, 70840>>, <<70842, 70842>>, <<70847, 70848>>, <<70850, 70851>>, <<71090, 71093>>,
      <<71100, 71101>>, <<71103, 71104>>, <<71132, 71133>>, <<71219, 71226>>, <<71229, 71229>>, <<71231, 71232>>,
      <<71339, 71339>>, <<71341, 71341>>, <<71344, 71349>>, <<71351, 71351>>, <<71453, 71455>>, <<71458, 71461>>,
      <<71463, 71467>>, <<71727, 71735>>, <<71737, 71738>>, <<71995, 71996>>, <<71998, 71998>>, <<72003, 72003>>,
      <<72148, 72151>>, <<72154, 72155>>, <<72160, 72160>>, <<72193, 72202>>, <<72243, 72248>>, <<72251, 72254>>,
      <<72263, 72263>>, <<72273, 72278>>, <<72281, 72283>>, <<72330, 72342>>, <<72344, 72345>>, <<72752, 72758>>,
      <<72760, 72765>>, <<72767, 72767>>, <<72850, 72871>>, <<72874, 72880>>, <<72882, 72883>>, <<72885, 72886>>,
      <<73009, 73014>>, <<73018, 73018>>, <<73020, 73021>>, <<73023, 73029>>, <<73031, 73031>>, <<73104, 73105>>,
      <<73109, 73109>>, <<73111, 73111>>, <<73459, 73460>>, <<78896, 78904>>, <<92912, 92916>>, <<92976, 92982>>,
      <<92992, 92995>>, <<94031, 94031>>, <<94095, 94111>>, <<94176, 94177>>, <<94179, 94180>>, <<110576, 110579>>,
      <<110581, 110587>>, <<110589, 110590>>, <<113821, 113822>>, <<113824, 113827>>, <<118528, 118573>>, <<118576, 118598>>,
      <<119143, 119145>>, <<119155, 119170>>, <<119173, 119179>>, <<119210, 119213>>, <<119362, 119364>>, <<121344, 121398>>,
      <<121403, 121452>>, <<121461, 121461>>, <<121476, 121476>>, <<121499, 121503>>, <<121505, 121519>>, <<122880, 122886>>,
      <<122888, 122904>>, <<122907, 122913>>, <<122915, 122916>>, <<122918, 122922>>, <<123184, 123197>>, <<123566, 123566>>,
      <<123628, 123631>>, <<125136, 125142>>, <<125252, 125259>>, <<127995, 127999>>, <<917505, 917505>>, <<917536, 917631>>,
      <<917760, 917999>>
    }

IsCaseIgnorable(c) == InRanges(c, CaseIgnorable)

\* the characters that have a case (Cased) among those that are not skipped
Cased ==
    {
      <<65, 90>>, <<97, 122>>, <<170, 170>>, <<181, 181>>, <<186, 186>>, <<192, 214>>,
      <<216, 246>>, <<248, 442>>, <<444, 447>>, <<452, 659>>, <<661, 687>>, <<880, 883>>,
      <<886, 887>>, <<891, 893>>, <<895, 895>>, <<902, 902>>, <<904, 906>>, <<908, 908>>,
      <<910, 929>>, <<931, 1013>>, <<1015, 1153>>, <<1162, 1327>>, <<1329, 1366>>, <<1376, 1416>>,
      <<4256, 4293>>, <<4295, 4295>>, <<4301, 4301>>, <<4304, 4346>>, <<4349, 4351>>, <<5024, 5109>>,
      <<5112, 5117>>, <<7296, 7304>>, <<7312, 7354>>, <<7357, 7359>>, <<7424, 7467>>, <<7531, 7543>>,
      <<7545, 7578>>, <<7680, 7957>>, <<7960, 7965>>, <<7968, 8005>>, <<8008, 8013>>, <<8016, 8023>>,
      <<8025, 8025>>, <<8027, 8027>>, <<8029, 8029>>, <<8031, 8061>>, <<8064, 8116>>, <<8118, 8124>>,
      <<8126, 8126>>, <<8130, 8132>>, <<8134, 8140>>, <<8144, 8147>>, <<8150, 8155>>, <<8160, 8172>>,
      <<8178, 8180>>, <<8182, 8188>>, <<8450, 8450>>, <<8455, 8455>>, <<8458, 8467>>, <<8469, 8469>>,
      <<8473, 8477>>, <<8484, 8484>>, <<8486, 8486>>, <<8488, 8488>>, <<8490, 8493>>, <<8495, 8500>>,
      <<8505, 8505>>, <<8508, 8511>>, <<8517, 8521>>, <<8526, 8526>>, <<8544, 8575>>, <<8579, 8580>>,
      <<9398, 9449>>, <<11264, 11387>>, <<11390, 11492>>, <<11499, 11502>>, <<11506, 11507>>, <<11520, 11557>>,
      <<11559, 11559>>, <<11565, 11565>>, <<42560, 42605>>, <<42624, 42651>>, <<42786, 42863>>, <<42865, 42887>>,
      <<42891, 42894>>, <<42896, 42954>>, <<42960, 42961>>, <<42963, 42963>>, <<42965, 42969>>, <<42997, 42998>>,
      <<43002, 43002>>, <<43824, 43866>>, <<43872, 43880>>, <<43888, 43967>>, <<64256, 64262>>, <<64275, 64279>>,
      <<65313, 65338>>, <<65345, 65370>>, <<66560, 66639>>, <<66736, 66771>>, <<66776, 66811>>, <<66928, 66938>>,
      <<66940, 66954>>, <<66956, 66962>>, <<66964, 66965>>, <<66967, 66977>>, <<66979, 66993>>, <<66995, 67001>>,
      <<67003, 67004>>, <<68736, 68786>>, <<68800, 68850>>, <<71840, 71903>>, <<93760, 93823>>, <<119808, 119892>>,
      <<119894, 119964>>, <<119966, 119967>>, <<119970, 119970>>, <<119973, 119974>>, <<119977, 119980>>, <<119982, 119993>>,
      <<119995, 119995>>, <<119997, 120003>>, <<120005, 120069>>, <<120071, 120074>>, <<120077, 120084>>, <<120086, 120092>>,
      <<120094, 120121>>, <<120123, 120126>>, <<120128, 120132>>, <<120134, 120134>>, <<120138, 120144>>, <<120146, 120485>>,
      <<120488, 120512>>, <<120514, 120538>>, <<120540, 120570>>, <<120572, 120596>>, <<120598, 120628>>, <<120630, 120654>>,
      <<120656, 120686>>, <<120688, 120712>>, <<120714, 120744>>, <<120746, 120770>>, <<120772, 120779>>, <<122624, 122633>>,
      <<122635, 122654>>, <<125184, 125251>>, <<127280, 127305>>, <<127312, 127337>>, <<127344, 127369>>
    }

IsCased(c) == InRanges(c, Cased)

\* the capital sigma at position k ends a word: the nearest position before it
\* that is not skipped holds a cased character, and the nearest one after it, if
\* any, does not; solid are the positions not skipped, cased those of the cased
\* characters
EndsWord(k, solid, cased) ==
    LET before == {j \in solid : j < k}
        after == {j \in solid : j > k}
    IN  /\ before # {}
        /\ (CHOOSE j \in before : \A m \in before : m <= j) \in cased
        /\ after = {} \/ (CHOOSE j \in after : \A m \in after : j <= m) \notin cased

FinalSigma(s, k) ==
    EndsWord(k, {j \in DOMAIN s : ~IsCaseIgnorable(s[j])}, {j \in DOMAIN s : IsCased(s[j])})

\* the characters str.lower() puts in the place of s[k]
LowerAt(s, k) ==
    IF s[k] = 931 THEN IF FinalSigma(s, k) THEN <<962>> ELSE <<963>>
    ELSE IF s[k] = 304 THEN <<105, 775>>
    ELSE <<LowerChar(s[k])>>

\* str.lower(): the characters put in the place of s[1], s[2], ... one after the
\* other; dotted(k) counts the characters among s[1..k] that become two, so that
\* those of s[k] stand at k + dotted(k - 1) .. k + dotted(k)
Lower(s) ==
    LET dotted(k) == Cardinality({j \in 1..k : s[j] = 304})
        at(m) == CHOOSE k \in 1..Len(s) : k + dotted(k - 1) <= m /\ m <= k + dotted(k)
    IN  [m \in 1..(Len(s) + dotted(Len(s))) |->
            LowerAt(s, at(m))[m - (at(m) + dotted(at(m) - 1)) + 1]]

RECURSIVE LStrip(_)
LStrip(s) == IF s # <<>> /\ IsSpace(Head(s)) THEN LStrip(Tail(s)) ELSE s

RECURSIVE RStrip(_)
RStrip(s) ==
    IF s # <<>> /\ IsSpace(s[Len(s)]) THEN RStrip(SubSeq(s, 1, Len(s) - 1)) ELSE s

\* str.strip()
Strip(s) == RStrip(LStrip(s))

Digits == <<"0", "1", "2", "3", "4", "5", "6", "7", "8", "9">>

\* str(n) of an int: its decimal digits, with a minus sign when negative
RECURSIVE DigitStr(_)
DigitStr(n) ==
    IF n < 0 THEN "-" \o DigitStr(0 - n)
    ELSE IF n < 10 THEN Digits[n + 1]
    ELSE DigitStr(n \div 10) \o Digits[(n % 10) + 1]

\* a JSON float of one decimal: its sign bit (-0.0 has it set) and its magnitude
\* in tenths
FloatItem(neg, tenths) == [t |-> "float", neg |-> neg, v |-> tenths]

\* str(c) of a JSON scalar: a string is itself, an int its decimal digits, a float
\* its sign and its digits with one decimal, a bool True or False, null None.
\* Samples that are lists or objects, and floats of more decimals, are not among
\* the answers analysed and have no case here.
Str(c) ==
    CASE c.t = "str" -> c.v
      [] c.t = "int" -> DigitStr(c.v)
      [] c.t = "float" ->
            (IF c.neg THEN "-" ELSE "") \o DigitStr(c.v \div 10)
                \o "." \o Digits[(c.v % 10) + 1]
      [] c.t = "bool" -> IF c.v THEN "True" ELSE "False"
      [] c.t = "null" -> "None"

(***************************************************************************)
(* The endpoint's answers.                                                 *)
(*   [kind |-> "exception", detail]      session.post raised (connection,  *)
(*                                       timeout); detail is str(e)        *)
(*   [kind |-> "http", status, text, json]   a response; text is           *)
(*       response.text, json is what response.json() gives:                *)
(*       [t |-> "invalid"] (it raises) or [t |-> "dict", v |-> the dict]   *)
(* A candidate's text payload is [t |-> "blank"] (empty after strip),      *)
(* [t |-> "garbage"] (json.loads raises) or [t |-> "json", v |-> value].   *)
(***************************************************************************)
EmptyDict == [k \in {} |-> 0]

QuotaText == "Gemini free-tier quota exceeded. Please wait ~60 seconds and try again."

Dict(x) == [t |-> "dict", v |-> x]

StrItem(x) == [t |-> "str", v |-> x]

IntItem(x) == [t |-> "int", v |-> x]

Ok(x) == [ok |-> TRUE, value |-> x]

Raise(type, msg) == [ok |-> FALSE, exc |-> [type |-> type, msg |-> msg]]

\* lines 63-76: the except HTTPError branch
HttpError_no429(resp) ==
    LET error_json == resp.json
        error_details ==
            IF /\ error_json.t = "dict"
               /\ "error" \in DOMAIN error_json.v
               /\ "message" \in DOMAIN error_json.v["error"]
            THEN error_json.v["error"]["message"]
            ELSE resp.text
    IN  Raise("ValueError", <<"Gemini API request failed: ">> \o error_details)

HttpError(resp) ==
    IF resp.status = 429
    THEN Raise("ValueError", <<QuotaText>>)
    ELSE LET error_json == resp.json
             error_details ==
                 IF /\ error_json.t = "dict"
                    /\ "error" \in DOMAIN error_json.v
                    /\ "message" \in DOMAIN error_json.v["error"]
                 THEN error_json.v["error"]["message"]
                 ELSE resp.text
         IN  Raise("ValueError", <<"Gemini API request failed: ">> \o error_details)

\* lines 53-80: session.post, raise_for_status, response.json() and the handlers
Post(resp) ==
    IF resp.kind = "exception"
    THEN Raise("ValueError", <<"An unexpected error occurred: ">> \o resp.detail)
    ELSE IF 400 <= resp.status /\ resp.status < 600   \* line 60: raise_for_status()
    THEN HttpError(resp)
    ELSE IF resp.json.t = "invalid"
    THEN Raise("ValueError", <<"An unexpected error occurred: ">> \o <<"Expecting value">>)
    ELSE Ok(resp.json.v)

\* lines 106-107: item.get('name') if isinstance(item, dict) else str(item); a name
\* is the sequence of characters the answer holds, None when the dict has none
EntityLabel(item) ==
    IF item.t = "dict"
    THEN IF "name" \in DOMAIN item.v
         THEN [t |-> "chars", v |-> item.v["name"]]
         ELSE [t |-> "null"]
    ELSE StrItem(Str(item))

\* line 110: [e for e in ... if e]: None and the empty string are dropped
RECURSIVE KeepTruthy(_)
KeepTruthy(list) ==
    IF list = <<>> THEN <<>>
    ELSE LET e == Head(list)
             falsy == \/ e.t = "null"
                      \/ e.t = "chars" /\ e.v = <<>>
                      \/ e.t = "str" /\ e.v = ""
         IN  IF falsy THEN KeepTruthy(Tail(list)) ELSE <<e>> \o KeepTruthy(Tail(list))

\* lines 104-110: the value of an 'entities' key, when it is a list
\* ([t |-> "list", v |-> the items]), is replaced by the labels of its items
NormalizeEntities(parsed_json) ==
    IF "entities" \in DOMAIN parsed_json /\ parsed_json["entities"].t = "list"
    THEN [parsed_json EXCEPT !["entities"] =
            [t |-> "list",
             v |-> KeepTruthy([k \in 1..Len(@.v) |-> EntityLabel(@.v[k])])]]
    ELSE parsed_json

\* lines 82-119 without the finishReason test of lines 95-96
ExtractJsonResponse_noSafety(response_data) ==
    LET wrap(m) == Raise("ValueError", <<"Error during JSON extraction: ">> \o m)
        candidates == Get(response_data, "candidates", <<>>)
    IN  IF candidates = <<>>
        THEN IF Get(Get(response_data, "promptFeedback", EmptyDict), "blockReason", "") # ""
             THEN wrap(<<"Gemini API blocked request: ",
                         response_data["promptFeedback"]["blockReason"]>>)
             ELSE wrap(<<"API response has no candidates">>)
        ELSE LET candidate == candidates[1]
                 finish_reason == Get(candidate, "finishReason", "None")
                 parts == Get(Get(candidate, "content", EmptyDict), "parts", <<>>)
             IN  IF parts = <<>> \/ Get(parts[1], "text", [t |-> "blank"]).t = "blank"
                 THEN wrap(<<"Gemini returned empty response">>)
                 ELSE IF parts[1]["text"].t = "garbage"
                 THEN Raise("ValueError",
                            <<"Failed to decode JSON from API response: ">>
                                \o <<"Expecting value">>)
                 ELSE Ok(NormalizeEntities(parts[1]["text"].v))

\* lines 82-119
ExtractJsonResponse(response_data) ==
    LET wrap(m) == Raise("ValueError", <<"Error during JSON extraction: ">> \o m)
        candidates == Get(response_data, "candidates", <<>>)
    IN  IF candidates = <<>>
        THEN IF Get(Get(response_data, "promptFeedback", EmptyDict), "blockReason", "") # ""
             THEN wrap(<<"Gemini API blocked request: ",
                         response_data["promptFeedback"]["blockReason"]>>)
             ELSE wrap(<<"API response has no candidates">>)
        ELSE LET candidate == candidates[1]
                 finish_reason == Get(candidate, "finishReason", "None")
                 parts == Get(Get(candidate, "content", EmptyDict), "parts", <<>>)
             IN  IF finish_reason = "SAFETY"
                 THEN wrap(<<"Gemini blocked response due to safety filtering">>)
                 ELSE IF parts = <<>> \/ Get(parts[1], "text", [t |-> "blank"]).t = "blank"
                 THEN wrap(<<"Gemini returned empty response">>)
                 ELSE IF parts[1]["text"].t = "garbage"
                 THEN Raise("ValueError",
                            <<"Failed to decode JSON from API response: ">>
                                \o <<"Expecting value">>)
                 ELSE Ok(NormalizeEntities(parts[1]["text"].v))

(***************************************************************************)
(* The Aggregator: lines 129-144 and 165-212 of analyze_bulk_comments.     *)
(* The running state is [agg, total_score_sum, processed_comments_count,   *)
(* raised]; raised is set where the Python code raises (an exception ends  *)
(* the try block, what was assigned before it stays assigned).             *)
(***************************************************************************)
EmotionKeys == {"joy", "anger", "sadness", "fear", "surprise", "trust", "anticipation"}

EngagementKeys == {"constructive_feedback", "criticism", "suggestions", "questions", "praise"}

\* lines 129-141
NewAggregate ==
    [overall_sentiment |-> [positive |-> 0, neutral |-> 0, negative |-> 0,
                            average_score |-> Div(0, 1)],
     top_entities |-> <<>>,
     key_themes |-> <<>>,
     emotion_analysis |-> [k \in EmotionKeys |-> 0],
     engagement_insights |-> [k \in EngagementKeys |-> 0]]

\* the position of key in an insertion-ordered dict, 0 when absent
Find(d, key) ==
    IF \E n \in 1..Len(d) : d[n].key = key
    THEN CHOOSE n \in 1..Len(d) : d[n].key = key
    ELSE 0

\* lines 166-169
AddSentiment(overall, sentiment) ==
    [overall EXCEPT !.positive = @ + Get(sentiment, "positive", 0),
                    !.neutral = @ + Get(sentiment, "neutral", 0),
                    !.negative = @ + Get(sentiment, "negative", 0)]

\* lines 171-172: the chunk's contribution to total_score_sum
ScoreTerm(sentiment, eligible) == Get(sentiment, "average_score", 0) * eligible

\* lines 177-186: one iteration of the loop over result["top_entities"];
\* st is [d |-> the entities dict, raised |-> BOOLEAN]
MergeEntity_overwrite(st, entity) ==
    IF entity.t # "dict"
    THEN [st EXCEPT !.raised = TRUE]
    ELSE LET name == Lower(Strip(Get(entity.v, "name", <<>>)))
             at == Find(st.d, name)
             fresh == [key |-> name,
                       val |-> [name |-> Get(entity.v, "name", Text(<<"N", "o", "n", "e">>)),
                                count |-> Get(entity.v, "count", 1),
                                type |-> Get(entity.v, "type", "OTHER")]]
         IN  IF name = <<>> THEN st
             ELSE IF at # 0
             THEN [st EXCEPT !.d[at] = fresh]
             ELSE [st EXCEPT !.d = Append(@, fresh)]

MergeEntity(st, entity) ==
    IF entity.t # "dict"
    THEN [st EXCEPT !.raised = TRUE]   \* AttributeError: no attribute 'get'
    ELSE LET name == Lower(Strip(Get(entity.v, "name", <<>>)))
             at == Find(st.d, name)
         IN  IF name = <<>> THEN st
             ELSE IF at # 0
             THEN [st EXCEPT !.d[at].val.count = @ + Get(entity.v, "count", 1)]
             ELSE [st EXCEPT !.d = Append(@,
                     [key |-> name,
                      val |-> [name |-> Get(entity.v, "name", Text(<<"N", "o", "n", "e">>)),
                               count |-> Get(entity.v, "count", 1),
                               type |-> Get(entity.v, "type", "OTHER")]])]

\* line 176: the loop
RECURSIVE MergeEntities(_, _)
MergeEntities(st, list) ==
    IF list = <<>> \/ st.raised THEN st
    ELSE MergeEntities(MergeEntity(st, Head(list)), Tail(list))

\* [str(c) for c in samples if str(c) not in existing]
RECURSIVE NewSamples(_, _)
NewSamples(samples, existing) ==
    IF samples = <<>> THEN <<>>
    ELSE LET rest == NewSamples(Tail(samples), existing)
         IN  IF Str(Head(samples)) \in existing THEN rest
             ELSE <<Str(Head(samples))>> \o rest

\* lines 190-202: one iteration of the loop over result["key_themes"]
MergeTheme(st, theme_data) ==
    LET theme_name == Lower(Strip(Get(theme_data, "theme", <<>>)))
        at == Find(st.d, theme_name)
    IN  IF theme_name = <<>> THEN st
        ELSE IF at # 0
        THEN IF "frequency" \notin DOMAIN st.d[at].val
             THEN [st EXCEPT !.raised = TRUE]   \* KeyError: 'frequency'
             ELSE LET existing_samples == Range(Get(st.d[at].val, "sample_comments", <<>>))
                      new_samples == NewSamples(Get(theme_data, "sample_comments", <<>>),
                                                existing_samples)
                  IN  [st EXCEPT
                         !.d[at].val.frequency = @ + Get(theme_data, "frequency", 1),
                         !.d[at].val.sample_comments = @ \o new_samples]
        ELSE LET stored == [k \in DOMAIN theme_data \cup {"sample_comments"} |->
                              IF k = "sample_comments"
                              THEN NewSamples(Get(theme_data, "sample_comments", <<>>), {})
                              ELSE theme_data[k]]
             IN  [st EXCEPT !.d = Append(@, [key |-> theme_name, val |-> stored])]

\* line 189: the loop
RECURSIVE MergeThemes(_, _)
MergeThemes(st, list) ==
    IF list = <<>> \/ st.raised THEN st
    ELSE MergeThemes(MergeTheme(st, Head(list)), Tail(list))

\* lines 205-207 and 210-212: sum per known key only
AddKnown(totals, counts) ==
    [k \in DOMAIN totals |-> totals[k] + Get(counts, k, 0)]

\* lines 166-212: a decoded result merged into the running state
Merge(agg, total, processed, chunk_result, eligible) ==
    LET sentiment == Get(chunk_result, "overall_sentiment", EmptyDict)
        ents == MergeEntities([d |-> agg.top_entities, raised |-> FALSE],
                              Get(chunk_result, "top_entities", <<>>))
        themes == IF ents.raised THEN [d |-> agg.key_themes, raised |-> TRUE]
                  ELSE MergeThemes([d |-> agg.key_themes, raised |-> FALSE],
                                   Get(chunk_result, "key_themes", <<>>))
        raised == themes.raised
    IN  [agg |-> [overall_sentiment |-> AddSentiment(agg.overall_sentiment, sentiment),
                  top_entities |-> ents.d,
                  key_themes |-> themes.d,
                  emotion_analysis |->
                      IF raised THEN agg.emotion_analysis
                      ELSE AddKnown(agg.emotion_analysis,
                                    Get(chunk_result, "emotion_analysis", EmptyDict)),
                  engagement_insights |->
                      IF raised THEN agg.engagement_insights
                      ELSE AddKnown(agg.engagement_insights,
                                    Get(chunk_result, "engagement_insights", EmptyDict))],
         total_score_sum |-> total + ScoreTerm(sentiment, eligible),
         processed_comments_count |-> processed + eligible,
         raised |-> raised]

(***************************************************************************)
(* Finalization: lines 222-239.                                            *)
(***************************************************************************)
\* an insertion that puts x before the elements of equal key
RECURSIVE InsertDesc_unstable(_, _)
InsertDesc_unstable(sorted, x) ==
    IF sorted = <<>> THEN <<x>>
    ELSE IF Head(sorted).k > x.k
    THEN <<Head(sorted)>> \o InsertDesc_unstable(Tail(sorted), x)
    ELSE <<x>> \o sorted

\* sorted(..., reverse=True) on (sort key, value) pairs: descending, and stable
\* (Python keeps the original order of elements whose keys are equal)
RECURSIVE InsertDesc(_, _)
InsertDesc(sorted, x) ==
    IF sorted = <<>> THEN <<x>>
    ELSE IF Head(sorted).k >= x.k
    THEN <<Head(sorted)>> \o InsertDesc(Tail(sorted), x)
    ELSE <<x>> \o sorted

RECURSIVE SortPairs(_, _)
SortPairs(done, rest) ==
    IF rest = <<>> THEN done
    ELSE SortPairs(InsertDesc(done, Head(rest)), Tail(rest))

\* lines 227-230 and 233-237: sorted(list(d.values()), key=..., reverse=True)
SortedDesc(d, field) ==
    LET pairs == [n \in 1..Len(d) |-> [k |-> Get(d[n].val, field, 0), v |-> d[n].val]]
        sorted == SortPairs(<<>>, pairs)
    IN  [n \in 1..Len(sorted) |-> sorted[n].v]

\* line 231: [:20]
Truncate(list) ==
    IF Len(list) <= TopEntitiesLimit THEN list ELSE SubSeq(list, 1, TopEntitiesLimit)

\* lines 223-224
AverageScore(agg, total, processed) ==
    IF processed > 0 THEN Div(total, processed) ELSE agg.overall_sentiment.average_score

\* lines 222-239
Finalize(agg, total, processed) ==
    [agg EXCEPT !.overall_sentiment.average_score = AverageScore(agg, total, processed),
                !.top_entities = Truncate(SortedDesc(agg.top_entities, "count")),
                !.key_themes = SortedDesc(agg.key_themes, "frequency")]

(***************************************************************************)
(* The Chunker: lines 126-127 and 146-156.                                 *)
(***************************************************************************)
Min(a, b) == IF a <= b THEN a ELSE b

\* line 127
TotalChunks(cs) == (Len(cs) + BULK_CHUNK_SIZE - 1) \div BULK_CHUNK_SIZE

\* line 147: comments[i:i + chunk_size]
Chunk(cs, at) == SubSeq(cs, at + 1, Min(at + BULK_CHUNK_SIZE, Len(cs)))

\* lines 148-151: the numbered, stripped texts of the comments whose text is not
\* blank; idx is enumerate's index in the chunk
RECURSIVE ChunkTextsFrom(_, _)
ChunkTextsFrom(chunk, idx) ==
    IF idx >= Len(chunk) THEN <<>>
    ELSE LET text == Strip(Get(chunk[idx + 1], "text", <<>>))
             rest == ChunkTextsFrom(chunk, idx + 1)
         IN  IF text # <<>> THEN <<[n |-> idx + 1, text |-> text]>> \o rest ELSE rest

ChunkTexts(chunk) == ChunkTextsFrom(chunk, 0)

\* i // chunk_size + 1
ChunkNo(at) == at \div BULK_CHUNK_SIZE + 1

(***************************************************************************)
(* Inputs: the comment lists analysed and the answers of the endpoint.     *)
(***************************************************************************)
Hi == Text(<<"h", "i">>)

\* a comment is a dict; only its 'text' is read (line 149)
CommentAt(pattern, j) ==
    CASE pattern = "full" ->
            IF j = 2 THEN [text |-> Text(<<"\n", "H", "i", "\t">>)] ELSE [text |-> Hi]
      [] pattern = "gaps" ->
            IF j % 2 = 1 THEN [text |-> Hi]
            ELSE IF j % 4 = 0 THEN [text |-> <<32, 8195, 10>>]   \* space, em space, newline
            ELSE [text |-> <<>>]
      [] pattern = "headBlank" ->
            IF j = 1 THEN [author |-> "x"]
            ELSE IF j <= BULK_CHUNK_SIZE THEN [text |-> Text(<<"\r">>)] ELSE [text |-> Hi]
      [] OTHER ->   \* "tailBlank"
            IF j <= BULK_CHUNK_SIZE THEN [text |-> Hi] ELSE [text |-> Text(<<"\t">>)]

Patterns == {"full", "gaps", "headBlank", "tailBlank"}

CommentLists ==
    {[j \in 1..n |-> CommentAt(p, j)] : n \in 0..MaxComments, p \in Patterns}

Alphabet == <<"a", "b", "h", "x", "y">>

\* 22 entities of distinct names, more than the 20 the result keeps
ManyEntities ==
    [j \in 1..(TopEntitiesLimit + 2) |->
        Dict([name |-> Text(<<Alphabet[(j - 1) \div 5 + 1], Alphabet[((j - 1) % 5) + 1]>>),
              count |-> ((j * 3) % 7) + 1,
              type |-> "OTHER"])]

ChunkResults ==
    { \* a full result; two spellings of one entity, the second without a count
      [overall_sentiment |-> [positive |-> 3, neutral |-> 1, negative |-> 1,
                              average_score |-> 8],
       top_entities |-> <<Dict([name |-> Text(<<"A", "b">>), count |-> 2, type |-> "PERSON"]),
                          Dict([name |-> Text(<<" ", "a", "B", " ">>), type |-> "PRODUCT"])>>,
       key_themes |-> <<[theme |-> Text(<<"H", "a">>), frequency |-> 2, sentiment |-> "positive",
                         sample_comments |-> <<StrItem("s1"), StrItem("s2")>>]>>,
       emotion_analysis |-> [joy |-> 2, anger |-> 1, boredom |-> 5],
       engagement_insights |-> [praise |-> 1]],
      \* a second result about the same entity and theme, spelled differently
      [overall_sentiment |-> [positive |-> 1, negative |-> 2, average_score |-> -2],
       top_entities |-> <<Dict([name |-> Text(<<"a", "B", "\n">>), count |-> 3,
                                type |-> "ORGANIZATION"]),
                          Dict([name |-> Text(<<"h">>), count |-> 4]),
                          Dict([count |-> 7])>>,
       key_themes |-> <<[theme |-> Text(<<" ", "h", "A">>), frequency |-> 1,
                         sample_comments |-> <<StrItem("s2"), StrItem("s3")>>],
                        [theme |-> Text(<<"b">>), frequency |-> 3, sentiment |-> "neutral"]>>,
       emotion_analysis |-> [joy |-> 1, trust |-> 2],
       entities |-> [t |-> "list",
                     v |-> <<Dict([name |-> Text(<<"M", "a", "x">>)]), StrItem("y"), StrItem(""),
                             Dict([label |-> "z"]), IntItem(10)>>]],
      \* no overall_sentiment, no top_entities; a theme without frequency whose
      \* samples repeat
      [key_themes |-> <<[theme |-> Text(<<"b">>),
                         sample_comments |-> <<StrItem("s1"), StrItem("s1"), IntItem(1),
                                               FloatItem(TRUE, 0)>>]>>,
       engagement_insights |-> [questions |-> 2]],
      \* a badly shaped result: an element of top_entities is a string
      [overall_sentiment |-> [positive |-> 2, average_score |-> 5],
       top_entities |-> <<Dict([name |-> Text(<<"h">>), count |-> 1, type |-> "EVENT"]),
                          StrItem("Max")>>,
       key_themes |-> <<[theme |-> Text(<<"H", "a">>), frequency |-> 1]>>,
       emotion_analysis |-> [fear |-> 1]],
      \* more entities than the result keeps, and themes of equal frequency
      [overall_sentiment |-> [neutral |-> 4, average_score |-> 0],
       top_entities |-> ManyEntities,
       key_themes |-> <<[theme |-> Text(<<"x">>), frequency |-> 1],
                        [theme |-> Text(<<"h", "a">>), frequency |-> 3,
                         sample_comments |-> <<StrItem("s3"), StrItem("s3")>>],
                        [theme |-> Text(<<"y">>), frequency |-> 1]>>] }

Http(status, text, json) == [kind |-> "http", status |-> status, text |-> text, json |-> json]

\* a 200 response whose first candidate carries the payload
Candidate(finish, payload) ==
    Http(200, <<>>, Dict([candidates |->
        <<[finishReason |-> finish, content |-> [parts |-> <<[text |-> payload]>>]]>>]))

Successes == {Candidate("STOP", [t |-> "json", v |-> r]) : r \in ChunkResults}

Failures ==
    { [kind |-> "exception", detail |-> <<QuotaText>>],
      Http(429, <<"quota">>, Dict([error |-> [message |-> <<"Resource exhausted">>]])),
      Http(500, <<"{}">>, Dict([error |-> [message |-> <<QuotaText>>]])),
      Http(503, <<QuotaText>>, [t |-> "invalid"]),
      Http(200, <<"<html>">>, [t |-> "invalid"]),
      Http(200, <<>>, Dict([promptFeedback |-> [blockReason |-> "PROHIBITED_CONTENT"]])),
      Http(200, <<>>, Dict([promptFeedback |-> [blockReason |-> ""]])),
      Http(600, <<"odd">>, Dict(EmptyDict)),
      Http(200, <<>>, Dict(EmptyDict)),
      Candidate("SAFETY", [t |-> "json",
                           v |-> [overall_sentiment |-> [negative |-> 1,
                                                         average_score |-> -9]]]),
      Candidate("STOP", [t |-> "blank"]),
      Candidate("STOP", [t |-> "garbage"]) }

Responses == Successes \cup Failures

(***************************************************************************)
(* The Rate Gate: lines 44-51 of _make_api_request.                        *)
(***************************************************************************)
\* lines 46-49: how long the caller sleeps before its turn
GateWait(elapsed) ==
    IF elapsed < MIN_SECONDS_BETWEEN_GEMINI_CALLS
    THEN MIN_SECONDS_BETWEEN_GEMINI_CALLS - elapsed
    ELSE 0

(***************************************************************************)
(* The state after SemanticAnalyzer() is constructed (lines 15-21) and     *)
(* analyze_bulk_comments is called with a comment list.                    *)
(***************************************************************************)
NotReturned == [returned |-> FALSE]

\* src/routes/analysis_routes.py: the routes whose handlers call into the
\* module-level analyzer of line 11 (lines 13-41, 43-61 and 63-81)
Bulk == "bulk-comments"

Routes == {Bulk, "ideas", "text"}

\* a route whose handler is not in _make_api_request; now, elapsed and wake are the
\* handler's local variables of lines 45-49 and ts the value of time.time() at line 51
Outside == [pc |-> "outside", now |-> 0, elapsed |-> 0, wake |-> 0, ts |-> 0]

Returned(v) == [returned |-> TRUE, value |-> v]

\* the analyzer is constructed and analyze_bulk_comments is called with one of the
\* lists and one of the callbacks, against an endpoint that gives the answers
Setup(lists, callbacks, answers) ==
    /\ comments \in lists
    /\ progress_callback \in callbacks
    /\ endpoint = answers
    /\ pc = "start"
    /\ i = 0
    /\ aggregated_results = NewAggregate
    /\ total_score_sum = 0
    /\ processed_comments_count = 0
    /\ prompt = <<>>
    /\ last_gemini_call_ts = 0
    /\ now = StartTime
    /\ result = NotReturned
    /\ chunk_state = [c \in 1..TotalChunks(comments) |-> "PENDING"]
    /\ calls = <<>>
    /\ sleeps = <<>>
    /\ log = <<>>
    /\ callers = [r \in Routes |-> Outside]
    /\ turns = <<>>
    /\ sleep_until = 0

Init == Setup(CommentLists, {"none", "returns", "raises"}, Responses)

(***************************************************************************)
(* analyze_bulk_comments, lines 121-239                                    *)
(***************************************************************************)
\* line 123: if not comments
ShortCircuit_never(cs) == FALSE

ShortCircuit(cs) == cs = <<>>

\* lines 123-124: an empty list returns {} at once
ReturnEmpty ==
    /\ pc = "start"
    /\ ShortCircuit(comments)
    /\ result' = Returned(EmptyDict)
    /\ pc' = "done"
    /\ UNCHANGED <<endpoint, callers, turns, sleep_until,
                   comments, progress_callback, i,
                   aggregated_results, total_score_sum, processed_comments_count,
                   prompt, last_gemini_call_ts, now, chunk_state, calls, sleeps, log>>

\* lines 126-144
Start ==
    /\ pc = "start"
    /\ ~ShortCircuit(comments)
    /\ aggregated_results' = NewAggregate
    /\ total_score_sum' = 0
    /\ processed_comments_count' = 0
    /\ i' = 0
    /\ pc' = "loop"
    /\ UNCHANGED <<endpoint, callers, turns, sleep_until,
                   comments, progress_callback, prompt,
                   last_gemini_call_ts, now, result, chunk_state, calls, sleeps, log>>

\* lines 153-154: a chunk without eligible comments is passed over
SkipEmptyChunk ==
    /\ pc = "loop"
    /\ i < Len(comments)
    /\ ChunkTexts(Chunk(comments, i)) = <<>>
    /\ i' = i + BULK_CHUNK_SIZE
    /\ UNCHANGED <<endpoint, callers, turns, sleep_until,
                   comments, progress_callback, pc,
                   aggregated_results, total_score_sum, processed_comments_count,
                   prompt, last_gemini_call_ts, now, result, chunk_state, calls,
                   sleeps, log>>

\* lines 146-158: the next chunk with eligible comments enters the try block
Dispatch ==
    /\ pc = "loop"
    /\ i < Len(comments)
    /\ ChunkTexts(Chunk(comments, i)) # <<>>
    /\ prompt' = ChunkTexts(Chunk(comments, i))
    /\ chunk_state' = [chunk_state EXCEPT ![ChunkNo(i)] = "IN_FLIGHT"]
    /\ pc' = "callback"
    /\ UNCHANGED <<endpoint, callers, turns, sleep_until,
                   comments, progress_callback, i,
                   aggregated_results, total_score_sum, processed_comments_count,
                   last_gemini_call_ts, now, result, calls, sleeps, log>>

\* the index the loop continues with after the except block (line 220: continue)
AfterFailure(at) == at + BULK_CHUNK_SIZE

\* lines 217-220: the except block
Except(stage, resp, exc, agg, total, processed) ==
    /\ aggregated_results' = agg
    /\ total_score_sum' = total
    /\ processed_comments_count' = processed + Len(prompt)
    /\ chunk_state' = [chunk_state EXCEPT ![ChunkNo(i)] = "SKIPPED"]
    /\ log' = Append(log, [chunk |-> ChunkNo(i), eligible |-> Len(prompt),
                           outcome |-> "SKIPPED", stage |-> stage,
                           resp |-> resp, exc |-> exc])
    /\ i' = AfterFailure(i)
    /\ pc' = "loop"

NoResponse == [kind |-> "none"]

\* lines 159-160: the progress callback returns (or there is none)
CallbackReturns ==
    /\ pc = "callback"
    /\ progress_callback # "raises"
    /\ pc' = "gate"
    /\ UNCHANGED <<endpoint, callers, turns, sleep_until,
                   comments, progress_callback, i,
                   aggregated_results, total_score_sum, processed_comments_count,
                   prompt, last_gemini_call_ts, now, result, chunk_state, calls,
                   sleeps, log>>

\* lines 159-160 and 217-220: the progress callback raises
CallbackRaises ==
    /\ pc = "callback"
    /\ progress_callback = "raises"
    /\ Except("callback", NoResponse, [type |-> "Exception", msg |-> <<"callback">>],
              aggregated_results, total_score_sum, processed_comments_count)
    /\ UNCHANGED <<endpoint, callers, turns, sleep_until,
                   comments, progress_callback, prompt,
                   last_gemini_call_ts, now, result, calls, sleeps>>

(***************************************************************************)
(* _make_api_request, lines 44-54, one statement at a time.  The function  *)
(* takes no lock: the handler of /bulk-comments enters it once per chunk   *)
(* (line 162), the handlers of /ideas and /text once per request (lines    *)
(* 249 and 270), all on the analyzer of analysis_routes.py line 11, and    *)
(* src/app.py line 48 serves with app.run, which runs each handler in a    *)
(* thread of its own.                                                      *)
(***************************************************************************)
\* what a step of a handler in the gate leaves alone in the bulk run
run == <<endpoint, sleep_until, comments, progress_callback, i, aggregated_results, total_score_sum,
         processed_comments_count, prompt, result, chunk_state, sleeps, log>>

Later(a, b) == IF a >= b THEN a ELSE b

\* the requests on /ideas and /text that have entered the gate so far: those still
\* before their turn and those granted one
Entered ==
    Cardinality({r \in Routes \ {Bulk} :
                    callers[r].pc \notin {"outside", "line54"}})
        + Cardinality({n \in 1..Len(turns) : turns[n].route # Bulk})

\* the handler of route r calls _make_api_request: line 162 for the bulk run, a
\* new request on /ideas or /text otherwise
Enter(r) ==
    /\ callers[r].pc = "outside"
    /\ IF r = Bulk THEN pc = "gate" ELSE Entered < MaxRequests
    /\ callers' = [callers EXCEPT ![r].pc = "line45"]
    /\ UNCHANGED <<run, pc, calls, turns, now, last_gemini_call_ts>>

\* line 45: now = time.time()
ReadClock(r) ==
    /\ callers[r].pc = "line45"
    /\ callers' = [callers EXCEPT ![r].pc = "line46", ![r].now = now]
    /\ UNCHANGED <<run, pc, calls, turns, now, last_gemini_call_ts>>

\* line 46: elapsed = now - self._last_gemini_call_ts
ReadLastTurn(r) ==
    /\ callers[r].pc = "line46"
    /\ callers' = [callers EXCEPT ![r].pc = "line47",
                                  ![r].elapsed = callers[r].now - last_gemini_call_ts]
    /\ UNCHANGED <<run, pc, calls, turns, now, last_gemini_call_ts>>

\* lines 47-49: the handler calls time.sleep(MIN - elapsed), or goes on
TestElapsed(r) ==
    /\ callers[r].pc = "line47"
    /\ callers' = IF GateWait(callers[r].elapsed) > 0
                  THEN [callers EXCEPT ![r].pc = "asleep",
                                       ![r].wake = now + GateWait(callers[r].elapsed)]
                  ELSE [callers EXCEPT ![r].pc = "line51"]
    /\ UNCHANGED <<run, pc, calls, turns, now, last_gemini_call_ts>>

\* line 49: time.sleep returns, when sleep_time has passed or up to MaxLatency later
WakeUp(r) ==
    /\ callers[r].pc = "asleep"
    /\ \E late \in 0..MaxLatency : now' = Later(now, callers[r].wake + late)
    /\ callers' = [callers EXCEPT ![r].pc = "line51"]
    /\ UNCHANGED <<run, pc, calls, turns, last_gemini_call_ts>>

\* line 51, the right-hand side: time.time()
ReadTurnClock(r) ==
    /\ callers[r].pc = "line51"
    /\ callers' = [callers EXCEPT ![r].pc = "line51store", ![r].ts = now]
    /\ UNCHANGED <<run, pc, calls, turns, now, last_gemini_call_ts>>

\* line 51, the assignment: self._last_gemini_call_ts = ...; the handler has its turn
StoreTurn(r) ==
    /\ callers[r].pc = "line51store"
    /\ last_gemini_call_ts' = callers[r].ts
    /\ turns' = Append(turns, [route |-> r, turn |-> callers[r].ts])
    /\ callers' = [callers EXCEPT ![r].pc = "line54"]
    /\ UNCHANGED <<run, pc, calls, now>>

\* line 54: session.post; the bulk run then waits for the answer (Respond), the
\* handlers of /ideas and /text are answered and leave (lines 60-61)
SendRequest(r) ==
    /\ callers[r].pc = "line54"
    /\ callers' = [callers EXCEPT ![r] = Outside]
    /\ IF r = Bulk
       THEN /\ calls' = Append(calls, [chunk |-> ChunkNo(i), turn |-> callers[r].ts,
                                       prompt |-> prompt])
            /\ pc' = "post"
       ELSE UNCHANGED <<pc, calls>>
    /\ UNCHANGED <<run, turns, now, last_gemini_call_ts>>

\* lines 53-80, 163-214 and 217-220: the endpoint answers resp after d seconds;
\* the answer is decoded and merged, or the except block runs
Respond ==
    /\ pc = "post"
    /\ \E resp \in endpoint, d \in 0..MaxLatency :
        LET posted == Post(resp)
            decoded == IF posted.ok THEN ExtractJsonResponse(posted.value) ELSE posted
            merged == Merge(aggregated_results, total_score_sum, processed_comments_count,
                            IF decoded.ok THEN decoded.value ELSE EmptyDict, Len(prompt))
            \* lines 214-215: the chunk is merged and is not the last of the list
            delayed == /\ posted.ok /\ decoded.ok /\ ~merged.raised
                       /\ i + Len(Chunk(comments, i)) < Len(comments)
        IN  /\ now' = now + d
            /\ sleep_until' = IF delayed THEN now + d + RATE_LIMIT_DELAY ELSE sleep_until
            /\ IF ~posted.ok
               THEN Except("request", resp, posted.exc, aggregated_results,
                           total_score_sum, processed_comments_count)
               ELSE IF ~decoded.ok
               THEN Except("decode", resp, decoded.exc, aggregated_results,
                           total_score_sum, processed_comments_count)
               ELSE IF merged.raised
               THEN Except("merge", resp, [type |-> "Exception", msg |-> <<"merge">>],
                           merged.agg, merged.total_score_sum,
                           merged.processed_comments_count)
               ELSE /\ aggregated_results' = merged.agg
                    /\ total_score_sum' = merged.total_score_sum
                    /\ processed_comments_count' = merged.processed_comments_count
                    /\ chunk_state' = [chunk_state EXCEPT ![ChunkNo(i)] = "MERGED"]
                    /\ log' = Append(log, [chunk |-> ChunkNo(i), eligible |-> Len(prompt),
                                           outcome |-> "MERGED", stage |-> "done",
                                           resp |-> resp,
                                           exc |-> [type |-> "None", msg |-> <<>>]])
                    \* lines 214-215: time.sleep(RATE_LIMIT_DELAY) is called
                    /\ IF delayed
                       THEN pc' = "sleep" /\ i' = i
                       ELSE pc' = "loop" /\ i' = i + BULK_CHUNK_SIZE
    /\ UNCHANGED <<endpoint, callers, turns, comments, progress_callback, prompt,
                   last_gemini_call_ts, result, calls, sleeps>>

\* line 215: time.sleep(Config.RATE_LIMIT_DELAY) returns, RATE_LIMIT_DELAY after it
\* was called or up to MaxLatency later
InterChunkDelay ==
    /\ pc = "sleep"
    /\ \E late \in 0..MaxLatency : now' = Later(now, sleep_until + late)
    /\ sleep_until' = 0
    /\ sleeps' = Append(sleeps, ChunkNo(i))
    /\ i' = i + BULK_CHUNK_SIZE
    /\ pc' = "loop"
    /\ UNCHANGED <<endpoint, callers, turns, comments, progress_callback,
                   aggregated_results, total_score_sum, processed_comments_count,
                   prompt, last_gemini_call_ts, result, chunk_state, calls, log>>

\* lines 222-239: the loop is over; the result is finalized and returned
Return ==
    /\ pc = "loop"
    /\ i >= Len(comments)
    /\ result' = Returned(Finalize(aggregated_results, total_score_sum,
                                   processed_comments_count))
    /\ pc' = "done"
    /\ UNCHANGED <<endpoint, callers, turns, sleep_until,
                   comments, progress_callback, i,
                   aggregated_results, total_score_sum, processed_comments_count,
                   prompt, last_gemini_call_ts, now, chunk_state, calls, sleeps, log>>

Next ==
    \/ ReturnEmpty
    \/ Start
    \/ SkipEmptyChunk
    \/ Dispatch
    \/ CallbackReturns
    \/ CallbackRaises
    \/ Enter(Bulk)
    \/ ReadClock(Bulk)
    \/ ReadLastTurn(Bulk)
    \/ TestElapsed(Bulk)
    \/ WakeUp(Bulk)
    \/ ReadTurnClock(Bulk)
    \/ StoreTurn(Bulk)
    \/ SendRequest(Bulk)
    \/ Respond
    \/ InterChunkDelay
    \/ Return

Spec == Init /\ [][Next]_vars

\* Respond and Return as steps of pc: the same steps as <<Respond>>_vars and
\* <<Return>>_vars, in a form whose enabling condition is read off pc
Answered == pc = "post" /\ pc' \in {"loop", "sleep"}

Returns == pc = "loop" /\ i >= Len(comments) /\ pc' = "done"

\* the handler of the bulk run is not held in the gate
GateFairness ==
    /\ WF_vars(Enter(Bulk)) /\ WF_vars(ReadClock(Bulk)) /\ WF_vars(ReadLastTurn(Bulk))
    /\ WF_vars(TestElapsed(Bulk)) /\ WF_vars(WakeUp(Bulk)) /\ WF_vars(ReadTurnClock(Bulk))
    /\ WF_vars(StoreTurn(Bulk)) /\ WF_vars(SendRequest(Bulk))

(***************************************************************************)
(* The endpoint may also never answer.  Line 17 sets the attribute         *)
(* session.timeout, which requests does not read, and lines 54-59 call     *)
(* session.post without a timeout argument: the call blocks until the      *)
(* endpoint answers.                                                        *)
(***************************************************************************)
\* lines 54-59: the endpoint accepts the request and never answers it; the thread
\* stays in session.post and no statement after it runs
EndpointSilent ==
    /\ pc = "post"
    /\ pc' = "hung"
    /\ UNCHANGED <<endpoint, callers, turns, sleep_until,
                   comments, progress_callback, i,
                   aggregated_results, total_score_sum, processed_comments_count,
                   prompt, last_gemini_call_ts, now, result, chunk_state, calls,
                   sleeps, log>>

HangNext == Next \/ EndpointSilent

\* the interpreter runs the single thread until the function returns; a request
\* is answered (with a response or an error) unless the endpoint goes silent on
\* it, which nothing in the code rules out
HangSpec ==
    /\ Init /\ [][HangNext]_vars
    /\ WF_vars(ReturnEmpty) /\ WF_vars(Start) /\ WF_vars(SkipEmptyChunk)
    /\ WF_vars(Dispatch) /\ WF_vars(CallbackReturns) /\ WF_vars(CallbackRaises)
    /\ GateFairness /\ WF_vars(InterChunkDelay)
    /\ WF_pc(Answered) /\ WF_pc(Returns)

(***************************************************************************)
(* Concurrent request handlers: a bulk run called by the handler of        *)
(* /bulk-comments, beside requests on /ideas and /text.  The handler of    *)
(* /bulk-comments answers 400 to an empty list (analysis_routes.py lines   *)
(* 22-23) and passes no progress callback (line 26).                       *)
(***************************************************************************)
\* a second passes
Tick ==
    /\ now < StartTime + MaxTicks
    /\ now' = now + 1
    /\ UNCHANGED <<run, pc, calls, turns, callers, last_gemini_call_ts>>

\* the lists the handler of /bulk-comments passes on: two chunks, and a first chunk
\* without an eligible comment
ConcComments ==
    {[j \in 1..(BULK_CHUNK_SIZE + 1) |-> CommentAt(p, j)] : p \in {"full", "headBlank"}}

\* an endpoint that answers with a full result or with HTTP 429
ConcResponses ==
    {a \in Responses :
        \/ a.kind = "http" /\ a.status = 429
        \/ a \in Successes
             /\ LET payload == a.json.v["candidates"][1]["content"]["parts"][1]["text"].v
                IN  {"top_entities", "engagement_insights"} \subseteq DOMAIN payload}

ConcInit == Setup(ConcComments, {"none"}, ConcResponses)

ConcNext ==
    \/ Start
    \/ SkipEmptyChunk
    \/ Dispatch
    \/ CallbackReturns
    \/ Respond
    \/ InterChunkDelay
    \/ Return
    \/ \E r \in Routes : \/ Enter(r)
                         \/ ReadClock(r)
                         \/ ReadLastTurn(r)
                         \/ TestElapsed(r)
                         \/ WakeUp(r)
                         \/ ReadTurnClock(r)
                         \/ StoreTurn(r)
                         \/ SendRequest(r)
    \/ Tick

ConcSpec == ConcInit /\ [][ConcNext]_vars

(***************************************************************************)
(* Reference definitions used to state the properties.  They read the      *)
(* history (log, calls, sleeps) and the inputs, never the accumulator.     *)
(***************************************************************************)
\* the chunk numbers of the input that hold at least one eligible comment
Eligible(c) == ChunkTexts(Chunk(comments, (c - 1) * BULK_CHUNK_SIZE)) # <<>>

Settled == {"MERGED", "SKIPPED"}

\* the JSON value an answer carries in its first candidate
PayloadOf(resp) == resp.json.v["candidates"][1]["content"]["parts"][1]["text"].v

\* the log entries whose answer was decoded and reached the merge
Decoded(e) == e.stage \in {"done", "merge"}

\* the sum of a sequence of numbers
RECURSIVE SumSeq(_)
SumSeq(seq) == IF seq = <<>> THEN 0 ELSE Head(seq) + SumSeq(Tail(seq))

Done == pc = "done"

AnalysisFailed(e) == e.resp \in Failures

Sentiment == result.value.overall_sentiment

----------------------------------------------------------------------------
\* C1: when the list is not empty and the endpoint's answer to every dispatched
\* chunk is a failure (HTTP error, 429, block, empty payload, malformed JSON,
\* transport exception), analyze_bulk_comments returns a result whose three
\* sentiment counts are 0 and whose average_score is 0, every chunk being SKIPPED.
C1_AllFailedZero ==
    (Done /\ comments # <<>> /\ \A n \in 1..Len(log) : AnalysisFailed(log[n]))
        => /\ result.returned
           /\ Sentiment.positive = 0 /\ Sentiment.neutral = 0 /\ Sentiment.negative = 0
           /\ Sentiment.average_score = Div(0, 1)
           /\ \A n \in 1..Len(log) : log[n].outcome = "SKIPPED"

\* two chunks were dispatched, the first answered 429, the second with a payload
\* that is not JSON, and the call returned
C1_Witness ==
    /\ Done /\ Len(log) = 2
    /\ log[1].resp.kind = "http" /\ log[1].resp.status = 429
    /\ log[2].resp = Candidate("STOP", [t |-> "garbage"])
    /\ result.returned /\ Sentiment.positive = 0

----------------------------------------------------------------------------
\* the chunks in flight
InFlight == {c \in DOMAIN chunk_state : chunk_state[c] = "IN_FLIGHT"}

\* one step of the chunks' state machine: a chunk changes state only from PENDING
\* to IN_FLIGHT, when it holds an eligible comment, no chunk is in flight, every
\* eligible chunk before it is settled and no chunk after it was touched, or from
\* IN_FLIGHT to MERGED or SKIPPED; a request is sent only for the chunk in flight
ChunkStep ==
    /\ \A c \in DOMAIN chunk_state :
          chunk_state'[c] # chunk_state[c] =>
             \/ /\ chunk_state[c] = "PENDING" /\ chunk_state'[c] = "IN_FLIGHT"
                /\ Eligible(c)
                /\ InFlight = {}
                /\ \A b \in DOMAIN chunk_state :
                      /\ (b < c /\ Eligible(b)) => chunk_state[b] \in Settled
                      /\ b > c => chunk_state[b] = "PENDING"
             \/ /\ chunk_state[c] = "IN_FLIGHT" /\ chunk_state'[c] \in Settled
    /\ calls' # calls =>
          /\ Len(calls') = Len(calls) + 1
          /\ InFlight = {calls'[Len(calls')].chunk}

\* when the call has returned every chunk with an eligible comment is MERGED or
\* SKIPPED, the others were never dispatched, and (unless the progress callback
\* raised before the request) one request was sent per eligible chunk, in input order
AllChunksSettled ==
    /\ \A c \in DOMAIN chunk_state :
          IF Eligible(c) THEN chunk_state[c] \in Settled ELSE chunk_state[c] = "PENDING"
    /\ \A n \in 1..Len(log) : n < Len(log) => log[n].chunk < log[n + 1].chunk
    /\ {log[n].chunk : n \in 1..Len(log)} = {c \in DOMAIN chunk_state : Eligible(c)}
    /\ progress_callback # "raises" =>
          /\ Len(calls) = Len(log)
          /\ \A n \in 1..Len(calls) : calls[n].chunk = log[n].chunk

\* the part of C2 that holds: chunks are dispatched one at a time and in input
\* order, each goes PENDING -> IN_FLIGHT -> MERGED or SKIPPED, and when the call
\* has returned every chunk with an eligible comment was dispatched exactly once,
\* also after a failed chunk
C2_ChunkOrder ==
    /\ [][ChunkStep]_vars
    /\ [](Cardinality(InFlight) <= 1)
    /\ [](Done => AllChunksSettled)

\* C2: every chunk with an eligible comment is dispatched exactly once, in input
\* order and one at a time, and goes PENDING -> IN_FLIGHT -> MERGED or SKIPPED; a
\* failed chunk does not keep the next one from being dispatched; the pipeline
\* always reaches DONE (the call returns) after the last chunk.
C2_ChunkLifecycle ==
    /\ [][ChunkStep]_vars
    /\ [](Cardinality(InFlight) <= 1)
    /\ [](Done => AllChunksSettled)
    /\ <>Done

\* the first of two chunks was SKIPPED on a failed request, the second one was
\* dispatched after it and MERGED, and the call returned
C2_Witness ==
    /\ Done /\ Len(log) = 2
    /\ chunk_state = <<"SKIPPED", "MERGED">>
    /\ log[1].stage = "request"
    /\ Len(calls) = 2

----------------------------------------------------------------------------
\* the chunk average score an answer reports (0 when absent), in tenths
ChunkAverage(e) ==
    Get(Get(PayloadOf(e.resp), "overall_sentiment", EmptyDict), "average_score", 0)

\* the count-weighted mean of the merged chunks' averages over the eligible counts
\* of the dispatched chunks, from the history
WeightedMean ==
    LET terms == [n \in 1..Len(log) |->
                    IF log[n].outcome = "MERGED"
                    THEN ChunkAverage(log[n]) * log[n].eligible ELSE 0]
        counts == [n \in 1..Len(log) |-> log[n].eligible]
    IN  IF SumSeq(counts) = 0 THEN Div(0, 1) ELSE Div(SumSeq(terms), SumSeq(counts))

\* C3: the average_score returned is the count-weighted mean of the chunk average
\* scores: the sum over the merged chunks of average_score x eligible count, divided
\* by the sum of the eligible counts, and 0 when the divisor is 0.
C3_WeightedMean ==
    (Done /\ comments # <<>>) => Sentiment.average_score = WeightedMean

----------------------------------------------------------------------------
\* the comments of chunk c whose trimmed text is not empty, in input order
EligibleTexts(c) ==
    LET chunk == Chunk(comments, (c - 1) * BULK_CHUNK_SIZE)
        keep == {n \in 1..Len(chunk) : \E k \in 1..Len(Get(chunk[n], "text", <<>>)) :
                                          ~IsSpace(chunk[n]["text"][k])}
        nth(m) == CHOOSE n \in keep : Cardinality({x \in keep : x < n}) = m - 1
    IN  [m \in 1..Cardinality(keep) |-> Strip(chunk[nth(m)]["text"])]

\* C4: every chunk sent holds the comments of its slice whose trimmed text is not
\* empty, at most chunk_size of them and at least one, in input order, numbered
\* 1..k consecutively in the prompt.
C4_ChunkNumbering ==
    \A n \in 1..Len(calls) :
        LET sent == calls[n].prompt
        IN  /\ Len(sent) \in 1..BULK_CHUNK_SIZE
            /\ [k \in 1..Len(sent) |-> sent[k].text] = EligibleTexts(calls[n].chunk)
            /\ \A k \in 1..Len(sent) : sent[k].n = k

\* C4 without the numbering: what the chunks hold
C4_ChunkContents ==
    \A n \in 1..Len(calls) :
        LET sent == calls[n].prompt
        IN  /\ Len(sent) \in 1..BULK_CHUNK_SIZE
            /\ [k \in 1..Len(sent) |-> sent[k].text] = EligibleTexts(calls[n].chunk)

----------------------------------------------------------------------------
\* C5: for the calls made through one analyzer instance, by whichever handler, the
\* Rate Gate is applied before every request: a turn is recorded for the request
\* before it is sent, and the turns recorded one after the other differ by at least
\* MIN_SECONDS_BETWEEN_GEMINI_CALLS.
C5_ConsecutiveTurns ==
    /\ \A n \in 1..Len(turns) - 1 :
          turns[n + 1].turn - turns[n].turn >= MIN_SECONDS_BETWEEN_GEMINI_CALLS
    /\ \A n \in 1..Len(calls) :
          \E m \in 1..Len(turns) : turns[m] = [route |-> Bulk, turn |-> calls[n].turn]

\* C5 for one caller at a time, the calls of one analyze_bulk_comments run with no
\* other handler in the gate: when a request is about to be sent its turn is the
\* one just recorded, at the present time, and the turn times of any two
\* consecutive calls differ by at least MIN_SECONDS_BETWEEN_GEMINI_CALLS.
C5_RateGate ==
    /\ \A n \in 1..Len(calls) - 1 :
          calls[n + 1].turn - calls[n].turn >= MIN_SECONDS_BETWEEN_GEMINI_CALLS
    /\ pc = "post" =>
          /\ calls # <<>>
          /\ calls[Len(calls)].turn = last_gemini_call_ts
          /\ calls[Len(calls)].chunk = ChunkNo(i)
          /\ now = last_gemini_call_ts
    /\ Cardinality({n \in 1..Len(log) : log[n].stage # "callback"})
          + (IF pc = "post" THEN 1 ELSE 0) = Len(calls)

----------------------------------------------------------------------------
\* the longest prefix of a JSON list made of objects: the entity records the
\* merge loop reads before it returns or raises
RECURSIVE DictPrefix(_)
DictPrefix(list) ==
    IF list = <<>> \/ Head(list).t # "dict" THEN <<>>
    ELSE <<Head(list).v>> \o DictPrefix(Tail(list))

\* the entity records merged so far, in the order they were merged, from the history
RECURSIVE EntityRecords(_)
EntityRecords(entries) ==
    IF entries = <<>> THEN <<>>
    ELSE LET e == entries[Len(entries)]
             before == EntityRecords(SubSeq(entries, 1, Len(entries) - 1))
         IN  IF Decoded(e)
             THEN before \o DictPrefix(Get(PayloadOf(e.resp), "top_entities", <<>>))
             ELSE before

EntityKey(record) == Lower(Strip(Get(record, "name", <<>>)))

\* C6: entity records whose names are equal after trimming and lower-casing,
\* within one chunk or across chunks, are merged into a single entry whose count is
\* the sum of their counts (an absent count is 1) and whose name and type are those
\* of the first record seen.
C6_EntityMerge ==
    LET records == EntityRecords(log)
        keyed == {n \in 1..Len(records) : EntityKey(records[n]) # <<>>}
        entries == aggregated_results.top_entities
    IN  /\ {entries[m].key : m \in 1..Len(entries)} = {EntityKey(records[n]) : n \in keyed}
        /\ \A a, b \in 1..Len(entries) : entries[a].key = entries[b].key => a = b
        /\ \A m \in 1..Len(entries) :
              LET same == {n \in keyed : EntityKey(records[n]) = entries[m].key}
                  first == CHOOSE n \in same : \A x \in same : n <= x
                  counts == [n \in 1..Len(records) |->
                                IF n \in same THEN Get(records[n], "count", 1) ELSE 0]
              IN  /\ entries[m].val.count = SumSeq(counts)
                  /\ entries[m].val.name = records[first]["name"]
                  /\ entries[m].val.type = Get(records[first], "type", "OTHER")

\* three records named "Ab", " aB " (without a count) and "aB", from two chunks,
\* were merged into one entry
C6_Witness ==
    /\ Len(log) = 2
    /\ \E m \in 1..Len(aggregated_results.top_entities) :
          /\ aggregated_results.top_entities[m].key = Text(<<"a", "b">>)
          /\ aggregated_results.top_entities[m].val.count = 6
          /\ aggregated_results.top_entities[m].val.type = "PERSON"

----------------------------------------------------------------------------
NoDuplicates(seq) == \A a, b \in 1..Len(seq) : seq[a] = seq[b] => a = b

\* C7: the sample_comments list of every theme holds no string twice, also when
\* one theme record of a chunk repeats a sample.
C7_NoDuplicateSamples ==
    \A m \in 1..Len(aggregated_results.key_themes) :
        NoDuplicates(aggregated_results.key_themes[m].val.sample_comments)

----------------------------------------------------------------------------
\* the position of a value in an insertion-ordered dict
Position(d, v) == CHOOSE m \in 1..Len(d) : d[m].val = v

\* list holds values of d, ordered by field descending and, for equal fields, by
\* their insertion order in d
RankedBy(list, d, field) ==
    /\ \A n \in 1..Len(list) : \E m \in 1..Len(d) : d[m].val = list[n]
    /\ \A a, b \in 1..Len(list) :
          a < b => \/ Get(list[a], field, 0) > Get(list[b], field, 0)
                   \/ /\ Get(list[a], field, 0) = Get(list[b], field, 0)
                      /\ Position(d, list[a]) < Position(d, list[b])

\* every value of d that list leaves out ranks after every value list holds
HoldsHighest(list, d, field) ==
    \A m \in 1..Len(d) :
        (\A n \in 1..Len(list) : list[n] # d[m].val) =>
            \A n \in 1..Len(list) :
                \/ Get(list[n], field, 0) > Get(d[m].val, field, 0)
                \/ /\ Get(list[n], field, 0) = Get(d[m].val, field, 0)
                   /\ Position(d, list[n]) < m

\* C8: in the result of a call on a non-empty list, top_entities has at most 20
\* elements, sorted by count descending with ties in insertion order, and holds
\* the 20 highest-count entities; key_themes holds every theme, sorted by frequency
\* descending with ties in insertion order.
C8_TopEntities ==
    (Done /\ comments # <<>>) =>
        /\ Len(result.value.top_entities)
              = Min(Len(aggregated_results.top_entities), TopEntitiesLimit)
        /\ RankedBy(result.value.top_entities, aggregated_results.top_entities, "count")
        /\ HoldsHighest(result.value.top_entities, aggregated_results.top_entities, "count")
        /\ Len(result.value.key_themes) = Len(aggregated_results.key_themes)
        /\ RankedBy(result.value.key_themes, aggregated_results.key_themes, "frequency")

\* more than 20 entities were merged, some of equal count, and themes of equal
\* frequency; the result keeps 20 entities
C8_Witness ==
    /\ Done /\ comments # <<>>
    /\ Len(aggregated_results.top_entities) > TopEntitiesLimit
    /\ Len(result.value.top_entities) = TopEntitiesLimit
    /\ result.value.top_entities[1].count = result.value.top_entities[2].count
    /\ Len(result.value.key_themes) = 3
    /\ Get(result.value.key_themes[2], "frequency", 0)
          = Get(result.value.key_themes[3], "frequency", 0)

----------------------------------------------------------------------------
\* C9: a call with an empty comment list returns the empty result {} having made
\* no outbound request, taken no Rate Gate turn and slept no inter-chunk delay.
C9_EmptyInput ==
    (Done /\ comments = <<>>) =>
        /\ result = Returned(EmptyDict)
        /\ calls = <<>>
        /\ last_gemini_call_ts = 0
        /\ sleeps = <<>>
        /\ now = StartTime
        /\ log = <<>>

\* the call on the empty list has returned
C9_Witness == Done /\ comments = <<>> /\ result.returned

----------------------------------------------------------------------------
\* the test a caller can make on the exception it catches
IsQuotaExceeded(exc) == exc.msg = <<QuotaText>>

\* C10: the error raised by the Analysis Client is the quota error exactly when the
\* endpoint answered HTTP 429: the error of any other non-2xx status, of a network
\* failure or of a response that cannot be decoded is told apart from it.
C10_QuotaExceeded ==
    \A n \in 1..Len(log) :
        log[n].outcome = "SKIPPED" /\ log[n].stage # "callback" =>
            (IsQuotaExceeded(log[n].exc)
                <=> (log[n].resp.kind = "http" /\ log[n].resp.status = 429))

\* one request was answered 429 and another one 503 with the quota text as its
\* body; only the first raised the quota error
C10_Witness ==
    /\ Len(log) = 2
    /\ log[1].resp.kind = "http" /\ log[1].resp.status = 429
    /\ IsQuotaExceeded(log[1].exc)
    /\ log[2].resp.kind = "http" /\ log[2].resp.status = 503
    /\ log[2].resp.text = <<QuotaText>>
    /\ ~IsQuotaExceeded(log[2].exc)

----------------------------------------------------------------------------
\* the chunk in flight is given up in this step
ChunkSkipped ==
    \E c \in DOMAIN chunk_state :
        chunk_state[c] = "IN_FLIGHT" /\ chunk_state'[c] = "SKIPPED"

\* C11: a chunk is merged all-or-nothing: a step in which the chunk in flight
\* becomes SKIPPED, wherever its processing raised, leaves the running aggregate
\* (sentiment counts, entities, themes, emotions, engagement insights) and the
\* score sum exactly as they were before the chunk.
C11_AllOrNothing ==
    [][ChunkSkipped => /\ aggregated_results' = aggregated_results
                       /\ total_score_sum' = total_score_sum]_vars

----------------------------------------------------------------------------
\* the number of input comments whose trimmed text is not empty
EligibleComments ==
    Cardinality({j \in 1..Len(comments) : Strip(Get(comments[j], "text", <<>>)) # <<>>})

\* C12: at finalization processed_comments_count is the sum of the eligible counts
\* of the dispatched chunks, MERGED or SKIPPED, each counted once, which is the
\* number of input comments whose trimmed text is not empty.
C12_Divisor ==
    (Done /\ comments # <<>>) =>
        /\ processed_comments_count = SumSeq([n \in 1..Len(log) |-> log[n].eligible])
        /\ processed_comments_count = EligibleComments

----------------------------------------------------------------------------
\* C13: the progress callback is advisory: whatever it does, raising included, a
\* request is sent for every chunk with an eligible comment and no chunk is given
\* up before its request was sent.
C13_CallbackAdvisory ==
    /\ \A n \in 1..Len(log) : log[n].stage # "callback"
    /\ Done => {calls[n].chunk : n \in 1..Len(calls)}
                  = {c \in DOMAIN chunk_state : Eligible(c)}

----------------------------------------------------------------------------
\* the last chunk that holds an eligible comment
IsFinalChunk(c) == Eligible(c) /\ \A b \in DOMAIN chunk_state : b > c => ~Eligible(b)

\* C14: the inter-chunk delay is slept after each merged chunk that is not the
\* final chunk (the last chunk with an eligible comment) and after no other chunk,
\* so every delay is followed by another dispatch.
C14_InterChunkDelay ==
    /\ \A k \in 1..Len(sleeps) : ~IsFinalChunk(sleeps[k])
    /\ Done => {sleeps[k] : k \in 1..Len(sleeps)}
                  = {log[n].chunk : n \in {m \in 1..Len(log) :
                                              /\ log[m].outcome = "MERGED"
                                              /\ ~IsFinalChunk(log[m].chunk)}}

----------------------------------------------------------------------------
\* the theme records the merge loop was given so far, in order, from the history:
\* those of the decoded answers whose entity list was read to its end
RECURSIVE ThemeRecords(_)
ThemeRecords(entries) ==
    IF entries = <<>> THEN <<>>
    ELSE LET e == entries[Len(entries)]
             before == ThemeRecords(SubSeq(entries, 1, Len(entries) - 1))
             entities == Get(PayloadOf(e.resp), "top_entities", <<>>)
         IN  IF Decoded(e) /\ Len(DictPrefix(entities)) = Len(entities)
             THEN before \o Get(PayloadOf(e.resp), "key_themes", <<>>)
             ELSE before

ThemeKey(record) == Lower(Strip(Get(record, "theme", <<>>)))

\* C16: theme records whose names are equal after trimming and lower-casing are
\* merged into one entry whose frequency is the sum of their frequencies, an absent
\* frequency counting 1, whatever the first record of the theme carried; no answer
\* is given up because of its themes.
C16_ThemeMerge ==
    LET records == ThemeRecords(log)
        keyed == {n \in 1..Len(records) : ThemeKey(records[n]) # <<>>}
        entries == aggregated_results.key_themes
    IN  /\ {entries[m].key : m \in 1..Len(entries)} = {ThemeKey(records[n]) : n \in keyed}
        /\ \A a, b \in 1..Len(entries) : entries[a].key = entries[b].key => a = b
        /\ \A m \in 1..Len(entries) :
              LET frequencies == [n \in 1..Len(records) |->
                                     IF n \in keyed /\ ThemeKey(records[n]) = entries[m].key
                                     THEN Get(records[n], "frequency", 1) ELSE 0]
              IN  Get(entries[m].val, "frequency", 1) = SumSeq(frequencies)
        /\ \A n \in 1..Len(log) :
              LET entities == Get(PayloadOf(log[n].resp), "top_entities", <<>>)
              IN  (Decoded(log[n]) /\ Len(DictPrefix(entities)) = Len(entities))
                     => log[n].outcome = "MERGED"

----------------------------------------------------------------------------
\* C15: for every finite comment list analyze_bulk_comments eventually returns,
\* even if the endpoint never answers one of the requests.
C15_EventuallyReturns == <>Done

----------------------------------------------------------------------------
\* C17: the calls into _make_api_request of the module-level analyzer are
\* serialized: also when the handlers of several HTTP requests run at the same
\* time, no two turns are granted less than MIN_SECONDS_BETWEEN_GEMINI_CALLS apart.
C17_SerializedTurns ==
    \A a, b \in 1..Len(turns) :
        a < b => turns[b].turn - turns[a].turn >= MIN_SECONDS_BETWEEN_GEMINI_CALLS

====
